---------------------------- MODULE Spec2Model ----------------------------
(***************************************************************************)
(* Model of the Output component (client/src/components/Output.tsx): the   *)
(* access list of a shared code document (load / grant / revoke), running  *)
(* the code and saving it.                                                 *)
(*                                                                         *)
(* The component is a React function component.  Every handler is an async *)
(* function: it runs up to its first `await`, and each continuation after  *)
(* an `await` is a separate atomic step on the single UI thread.  A        *)
(* handler reads the state variables of the render in which it was created *)
(* (its closure), so a request in flight carries the values of `id`,       *)
(* `emails` and `newEmail` it captured when it was issued.                 *)
(***************************************************************************)
EXTENDS Integers, Sequences, FiniteSets, TLC

VARIABLES
    output,         \* useState<string[] | null>(null): <<>> is null, <<lines>> a value
    isLoading,      \* useState(false)
    isError,        \* useState(false)
    emails,         \* useState<string[]>([])
    isModalOpen,    \* useState(false)
    newEmail,       \* useState('')
    isRemoving,     \* useState(false)
    id,             \* the `id` prop
    toasts,         \* the notifications the latest step handed to toast()
    reqs,           \* the async calls issued so far, in order of issue
    serverAccess,   \* the remote authority: the stored Access list of each document
    result          \* what `await executeCode(...)` gave the latest step, <<>> if it resumed no run

vars == <<output, isLoading, isError, emails, isModalOpen, newEmail,
          isRemoving, id, toasts, reqs, serverAccess, result>>

uiVars == <<isModalOpen, newEmail, isRemoving>>
execVars == <<output, isLoading, isError>>
accessVars == <<emails, isModalOpen, newEmail, isRemoving, id, serverAccess>>

----------------------------------------------------------------------------
(* Bounds of the model *)

\* Access requests (load, grant, revoke) issued in one behaviour, the first load included.
MaxAccessReqs == 3
\* Run and save requests issued in one behaviour.
MaxExecReqs == 3
\* Run and save requests issued in one behaviour in which the access list is
\* loaded and the dialog is used as well (SpecPage).
MaxPageReqs == 2

Docs == {"d1", "d2"}
Emails == {"a", "b"}
\* What the user can have typed in the email input: nothing, a blank, an address.
Typed == {"", " ", "a"}
\* The Access list the server holds for the document when the component mounts.
ServerLists == {<<>>, <<"a">>, <<"a", "b">>, <<"a", "a">>}
NL == "\n"
\* The `output` strings the execution service returns, as sequences of
\* characters: "", "oops", "1\n2\n3", "1\n\n", "\n1".
Outputs ==
    {<<>>, <<"o", "o", "p", "s">>, <<"1", NL, "2", NL, "3">>, <<"1", NL, NL>>, <<NL, "1">>}
\* What response.json() gives for an error body, or error.message for a thrown
\* error: a message, "" when it carries none.
Messages == {"", "denied"}
\* A body response.json() cannot parse.
Unparsable == "<html>"
Stderrs == {"", "TypeError"}
\* editorRef.current?.getValue(): undefined/empty, or some text.
Sources == {"", "print(1)"}

----------------------------------------------------------------------------
(* JavaScript helpers *)

\* Truthy taking every string, '' included, for truthy.
TruthyAlways(s) == s = s

\* Truthiness of a string: only '' (and undefined, which '' stands for) is falsy.
Truthy(s) == s # ""

\* `a || b` on strings.
OrElse(a, b) == IF Truthy(a) THEN a ELSE b

\* `data.Access || []`: the field is <<list>> when present, <<>> when absent.
AccessOrEmpty(access) == IF access = <<>> THEN <<>> ELSE access[1]

\* Appended with the new entry put first.
Prepended(list, e) == <<e>> \o list

\* `[...emails, newEmail]`
Appended(list, e) == Append(list, e)

\* Filtered removing the first match only, as a splice at indexOf would.
FilteredFirst(list, e) ==
    IF \E k \in 1..Len(list) : list[k] = e
    THEN LET k == CHOOSE j \in 1..Len(list) :
                      list[j] = e /\ \A m \in 1..(j - 1) : list[m] # e
         IN  SubSeq(list, 1, k - 1) \o SubSeq(list, k + 1, Len(list))
    ELSE list

\* `emails.filter(email => email !== emailToRemove)`
Filtered(list, e) == SelectSeq(list, LAMBDA x : x # e)

\* Split dropping the empty segments, as `.filter(Boolean)` after it would.
RECURSIVE SplitNonEmpty(_)
SplitNonEmpty(s) ==
    IF \A k \in 1..Len(s) : s[k] # NL
    THEN IF s = <<>> THEN <<>> ELSE <<s>>
    ELSE LET k == CHOOSE j \in 1..Len(s) :
                      s[j] = NL /\ \A m \in 1..(j - 1) : s[m] # NL
         IN  (IF k = 1 THEN <<>> ELSE <<SubSeq(s, 1, k - 1)>>)
                 \o SplitNonEmpty(SubSeq(s, k + 1, Len(s)))

\* `s.split("\n")`, s a sequence of characters: the segments between newlines.
RECURSIVE Split(_)
Split(s) ==
    IF \A k \in 1..Len(s) : s[k] # NL
    THEN <<s>>
    ELSE LET k == CHOOSE j \in 1..Len(s) :
                      s[j] = NL /\ \A m \in 1..(j - 1) : s[m] # NL
         IN  <<SubSeq(s, 1, k - 1)>> \o Split(SubSeq(s, k + 1, Len(s)))

\* The argument of toast({title, description, status, duration: 6000}).
Toast(title, description, status) ==
    [title |-> title, description |-> description, status |-> status]

\* `Access granted to ${newEmail}` / `Access revoked for ${emailToRemove}`
Naming(prefix, e) == <<prefix, e>>
Plain(text) == <<text>>


----------------------------------------------------------------------------
(* Requests *)

\* How `await fetch(...)` can end: a response with response.ok, a response
\* without it, a rejected call.
Statuses == {"ok", "notok", "throw"}

\* The success response of the remote side, once it has served the call.
\* parse: whether response.json() gives the body or throws.  access: the
\* Access field of the body of a load, <<list>> when present and <<>> when
\* absent.
NoResp == [served |-> FALSE, parse |-> TRUE, access |-> <<>>]

\* A call in flight.  doc, emails and email are the values of `id`, `emails`
\* and of the email argument in the closure that issued it; output0/isError0
\* are the execution result of that same render.  pc is the `await` the
\* handler is suspended at: "fetch" (the call itself) or "json"
\* (response.json()).  clean records that no handler writing the state this
\* one captured (see Writers) has returned since this call was issued.
Req(kind, doc, list, email) ==
    [kind |-> kind, doc |-> doc, emails |-> list, email |-> email,
     output0 |-> output, isError0 |-> isError,
     pc |-> "fetch", resp |-> NoResp, clean |-> TRUE]

\* A handler that has returned: only the controller it belongs to is kept,
\* and of a load whether it has set the list (resp.served).
Done(class, loaded) ==
    [kind |-> class, doc |-> "", emails |-> <<>>, email |-> "",
     output0 |-> <<>>, isError0 |-> FALSE,
     pc |-> "done", resp |-> [NoResp EXCEPT !.served = loaded], clean |-> TRUE]

\* The handlers that write the state the handler of a `kind` request reads or restores.
Writers(kind) ==
    IF kind \in {"load", "grant", "revoke"} THEN {"load", "grant", "revoke"} ELSE {"run"}

Class(kind) ==
    IF kind \in {"load", "grant", "revoke", "access"} THEN "access" ELSE "exec"

Issued(class) == Cardinality({i \in DOMAIN reqs : Class(reqs[i].kind) = class})

InFlight(class) ==
    {i \in DOMAIN reqs : Class(reqs[i].kind) = class /\ reqs[i].pc # "done"}

\* Request i is suspended at `await fetch(...)` and the remote side has not served it.
Sent(i, kind) ==
    /\ i \in DOMAIN reqs
    /\ reqs[i].kind = kind
    /\ reqs[i].pc = "fetch"
    /\ ~reqs[i].resp.served

\* `await fetch(...)` of request i ends with `status`: with the success
\* response once the remote side has served the call, and with a failure (of
\* the network or of the remote side) as long as it has not.
Arrived(i, kind, status) ==
    /\ i \in DOMAIN reqs
    /\ reqs[i].kind = kind
    /\ reqs[i].pc = "fetch"
    /\ status \in (IF reqs[i].resp.served THEN {"ok"} ELSE {"notok", "throw"})

\* Request i is suspended at `await response.json()`.
Parsing(i, kind) ==
    /\ i \in DOMAIN reqs
    /\ reqs[i].kind = kind
    /\ reqs[i].pc = "json"

Issue(r) == reqs' = Append(reqs, r)

Answer(i, resp) == reqs' = [reqs EXCEPT ![i].resp = resp]

\* The handler of request i suspends at response.json().
Suspend(i) == reqs' = [reqs EXCEPT ![i].pc = "json"]

\* The handler of request i returns; `loaded` holds when it is a load that set the list.
Finish(i, loaded) ==
    reqs' = [j \in DOMAIN reqs |->
                IF j = i THEN Done(Class(reqs[i].kind), loaded)
                ELSE IF reqs[j].pc # "done" /\ reqs[i].kind \in Writers(reqs[j].kind)
                     THEN [reqs[j] EXCEPT !.clean = FALSE]
                     ELSE reqs[j]]

\* Return issuing the call of request i once more, as a retry would.
ReturnReissues(i) ==
    reqs' = Append([j \in DOMAIN reqs |->
                       IF j = i THEN Done(Class(reqs[i].kind), FALSE) ELSE reqs[j]],
                   [reqs[i] EXCEPT !.pc = "fetch", !.resp = NoResp])

Return(i) == Finish(i, FALSE)

Notify(t) == toasts' = <<t>>
Quiet == toasts' = <<>>

\* The step resumes no run.
NoRun == result' = <<>>

\* The step starts a handler or is a step of the remote side: it notifies nothing.
Fresh == Quiet /\ NoRun

----------------------------------------------------------------------------
(* The remote authority *)

\* PUT /api/codes/give/{id}: the email joins the stored list.
Given(list, e) == IF \E k \in 1..Len(list) : list[k] = e THEN list ELSE Append(list, e)

\* PUT /api/codes/take/{id}: the email leaves the stored list.
Taken(list, e) == SelectSeq(list, LAMBDA x : x # e)

\* The bodies GET /api/codes/{id} can answer with: the stored list, or no
\* Access field at all for a document nobody has been given access to.
LoadBodies(list) == {<<list>>} \cup (IF list = <<>> THEN {<<>>} ELSE {})

\* The remote side serves a load: it answers with the list it holds.
ServeLoad(i) ==
    /\ Sent(i, "load")
    /\ \/ \E body \in LoadBodies(serverAccess[reqs[i].doc]) :
              Answer(i, [served |-> TRUE, parse |-> TRUE, access |-> body])
       \/ Answer(i, [served |-> TRUE, parse |-> FALSE, access |-> <<>>])
    /\ Fresh
    /\ UNCHANGED <<execVars, emails, uiVars, id, serverAccess>>

\* The remote side serves a grant: it applies it and confirms.
ServeGive(i) ==
    /\ Sent(i, "grant")
    /\ Answer(i, [NoResp EXCEPT !.served = TRUE])
    /\ serverAccess' = [serverAccess EXCEPT ![reqs[i].doc] = Given(@, reqs[i].email)]
    /\ Fresh
    /\ UNCHANGED <<execVars, emails, uiVars, id>>

\* The remote side serves a revoke: it applies it and confirms.
ServeTake(i) ==
    /\ Sent(i, "revoke")
    /\ Answer(i, [NoResp EXCEPT !.served = TRUE])
    /\ serverAccess' = [serverAccess EXCEPT ![reqs[i].doc] = Taken(@, reqs[i].email)]
    /\ Fresh
    /\ UNCHANGED <<execVars, emails, uiVars, id>>

----------------------------------------------------------------------------
(* Loading the access list: the effect on [id] *)

\* fetchEmails() up to `await fetch(...)`.
FetchEmails(doc) == Issue(Req("load", doc, emails, ""))

\* The component is rendered with another id: the effect runs again.
ChangeId(doc) ==
    /\ doc # id
    /\ Issued("access") < MaxAccessReqs
    /\ id' = doc
    /\ FetchEmails(doc)
    /\ Fresh
    /\ UNCHANGED <<execVars, emails, uiVars, serverAccess>>

\* The `catch` block.
FetchEmailsCatch ==
    /\ Notify(Toast("Error", Plain("Unable to fetch email list."), "error"))
    /\ UNCHANGED emails

\* fetchEmails() resumes after `await fetch(...)`.
FetchEmailsResponse(i, status) ==
    /\ Arrived(i, "load", status)
    /\ NoRun
    /\ IF status = "ok"
       THEN /\ Suspend(i)
            /\ Quiet
            /\ UNCHANGED emails
       ELSE /\ FetchEmailsCatch
            /\ Return(i)
    /\ UNCHANGED <<execVars, uiVars, id, serverAccess>>

\* LoadedEmails keeping one entry per address, as `[...new Set(list)]` would.
RECURSIVE Unique(_)
Unique(list) ==
    IF list = <<>> THEN <<>>
    ELSE LET front == Unique(SubSeq(list, 1, Len(list) - 1))
             e == list[Len(list)]
         IN  IF \E k \in 1..Len(front) : front[k] = e THEN front ELSE Append(front, e)

LoadedEmailsUnique(resp) == Unique(AccessOrEmpty(resp.access))

\* The list setEmails is called with.
LoadedEmails(resp) == AccessOrEmpty(resp.access)

\* fetchEmails() resumes after `await response.json()`, which gives the
\* body or throws (resp.parse).
FetchEmailsJson(i) ==
    /\ Parsing(i, "load")
    /\ NoRun
    /\ IF reqs[i].resp.parse
       THEN /\ emails' = LoadedEmails(reqs[i].resp)
            /\ Quiet
       ELSE FetchEmailsCatch
    /\ Finish(i, reqs[i].resp.parse)
    /\ UNCHANGED <<execVars, uiVars, id, serverAccess>>

----------------------------------------------------------------------------
(* Granting access: handleEmailSubmit *)

Unexpected == Toast("Error", Plain("An unexpected error occurred."), "error")

\* handleEmailSubmit() up to `await fetch(...)`.  The Submit button is part
\* of the modal, so it can only be pressed while the modal is open.
HandleEmailSubmit ==
    /\ isModalOpen
    /\ IF Truthy(newEmail)
       THEN /\ Issued("access") < MaxAccessReqs
            /\ Issue(Req("grant", id, emails, newEmail))
       ELSE UNCHANGED reqs
    /\ Fresh
    /\ UNCHANGED <<execVars, emails, uiVars, id, serverAccess>>

\* HandleEmailSubmitOk reading the email from the input as it is when the
\* response arrives.
HandleEmailSubmitOkBuffer(r) ==
    /\ emails' = Appended(r.emails, newEmail)
    /\ newEmail' = ""
    /\ isModalOpen' = FALSE
    /\ Notify(Toast("Access Granted", Naming("Access granted to ", newEmail), "success"))

\* The `if (response.ok)` branch: r is the suspended call.
HandleEmailSubmitOk(r) ==
    /\ emails' = Appended(r.emails, r.email)
    /\ newEmail' = ""
    /\ isModalOpen' = FALSE
    /\ Notify(Toast("Access Granted", Naming("Access granted to ", r.email), "success"))

\* HandleEmailSubmitElse closing the modal as the success branch does.
HandleEmailSubmitElseCloses(message) ==
    /\ Notify(Toast("Error", Plain(OrElse(message, "Failed to add email.")), "error"))
    /\ isModalOpen' = FALSE
    /\ UNCHANGED <<emails, newEmail>>

\* The `else` branch once response.json() has given errorData.
HandleEmailSubmitElse(message) ==
    /\ Notify(Toast("Error", Plain(OrElse(message, "Failed to add email.")), "error"))
    /\ UNCHANGED <<emails, newEmail, isModalOpen>>

\* The `catch` block.
HandleEmailSubmitCatch ==
    /\ Notify(Unexpected)
    /\ UNCHANGED <<emails, newEmail, isModalOpen>>

\* handleEmailSubmit() resumes after `await fetch(...)`.
HandleEmailSubmitResponse(i, status) ==
    /\ Arrived(i, "grant", status)
    /\ NoRun
    /\ CASE status = "ok" ->
                /\ HandleEmailSubmitOk(reqs[i])
                /\ Return(i)
         [] status = "notok" ->
                /\ Suspend(i)
                /\ Quiet
                /\ UNCHANGED <<emails, newEmail, isModalOpen>>
         [] OTHER ->
                /\ HandleEmailSubmitCatch
                /\ Return(i)
    /\ UNCHANGED <<execVars, isRemoving, id, serverAccess>>

\* handleEmailSubmit() resumes after `await response.json()`, which gives
\* the error body or throws.
HandleEmailSubmitJson(i, body) ==
    /\ Parsing(i, "grant")
    /\ NoRun
    /\ IF body # Unparsable
       THEN HandleEmailSubmitElse(body)
       ELSE HandleEmailSubmitCatch
    /\ Return(i)
    /\ UNCHANGED <<execVars, isRemoving, id, serverAccess>>

----------------------------------------------------------------------------
(* Revoking access: removeEmail *)

Shown == {emails[k] : k \in 1..Len(emails)}

\* removeEmail(emailToRemove) up to `await fetch(...)`.  The remove button is
\* rendered beside each entry of `emails` while isRemoving holds.
RemoveEmail(emailToRemove) ==
    /\ isRemoving
    /\ emailToRemove \in Shown
    /\ Issued("access") < MaxAccessReqs
    /\ Issue(Req("revoke", id, emails, emailToRemove))
    /\ Fresh
    /\ UNCHANGED <<execVars, emails, uiVars, id, serverAccess>>

\* RemoveEmailOk filtering the list of the moment, as setEmails(prev => ...) would.
RemoveEmailOkCurrent(r) ==
    /\ emails' = Filtered(emails, r.email)
    /\ Notify(Toast("Access Revoked", Naming("Access revoked for ", r.email), "success"))

\* The `if (response.ok)` branch.
RemoveEmailOk(r) ==
    /\ emails' = Filtered(r.emails, r.email)
    /\ Notify(Toast("Access Revoked", Naming("Access revoked for ", r.email), "success"))

\* The `else` branch once response.json() has given errorData.
RemoveEmailElse(message) ==
    /\ Notify(Toast("Error", Plain(OrElse(message, "Failed to remove email.")), "error"))
    /\ UNCHANGED emails

\* The `catch` block.
RemoveEmailCatch ==
    /\ Notify(Unexpected)
    /\ UNCHANGED emails

\* removeEmail() resumes after `await fetch(...)`.
RemoveEmailResponse(i, status) ==
    /\ Arrived(i, "revoke", status)
    /\ NoRun
    /\ CASE status = "ok" ->
                /\ RemoveEmailOk(reqs[i])
                /\ Return(i)
         [] status = "notok" ->
                /\ Suspend(i)
                /\ Quiet
                /\ UNCHANGED emails
         [] OTHER ->
                /\ RemoveEmailCatch
                /\ Return(i)
    /\ UNCHANGED <<execVars, uiVars, id, serverAccess>>

\* removeEmail() resumes after `await response.json()`.
RemoveEmailJson(i, body) ==
    /\ Parsing(i, "revoke")
    /\ NoRun
    /\ IF body # Unparsable
       THEN RemoveEmailElse(body)
       ELSE RemoveEmailCatch
    /\ Return(i)
    /\ UNCHANGED <<execVars, uiVars, id, serverAccess>>

----------------------------------------------------------------------------
(* Running the code: runCode *)

\* What `await executeCode(language, sourceCode)` can give: {run: {output,
\* stderr}} (out is <<s>>, or <<>> when the result carries no output string),
\* or a thrown error with its message.
RunResults ==
    {[ok |-> TRUE, out |-> <<o>>, stderr |-> e, message |-> ""] :
        o \in Outputs, e \in Stderrs}
    \cup {[ok |-> TRUE, out |-> <<>>, stderr |-> e, message |-> ""] : e \in Stderrs}
    \cup {[ok |-> FALSE, out |-> <<>>, stderr |-> "", message |-> m] : m \in Messages}

\* The message of the TypeError `result.output.split` throws on a missing output.
NoOutputError == "Cannot read properties of undefined (reading 'split')"

\* RunCode refusing to start while isLoading holds.
RunCodeGuarded(sourceCode) ==
    /\ IF Truthy(sourceCode)
       THEN /\ ~isLoading
            /\ Issued("exec") < MaxExecReqs
            /\ isLoading' = TRUE
            /\ Issue(Req("run", id, emails, ""))
       ELSE UNCHANGED <<isLoading, reqs>>
    /\ Fresh
    /\ UNCHANGED <<output, isError, accessVars>>

\* runCode() up to `await executeCode(...)`.
RunCode(sourceCode) ==
    /\ IF Truthy(sourceCode)
       THEN /\ Issued("exec") < MaxExecReqs
            /\ isLoading' = TRUE
            /\ Issue(Req("run", id, emails, ""))
       ELSE UNCHANGED <<isLoading, reqs>>
    /\ Fresh
    /\ UNCHANGED <<output, isError, accessVars>>

\* The rest of the `try` block: setOutput and setIsError.
RunCodeTry(res) ==
    /\ output' = <<Split(res.out[1])>>
    /\ isError' = Truthy(res.stderr)
    /\ Quiet

\* RunCodeCatch clearing the execution result.
RunCodeCatchClears(message) ==
    /\ Notify(Toast("An error occurred.", Plain(OrElse(message, "Unable to run code")), "error"))
    /\ output' = <<>>
    /\ isError' = FALSE

\* RunCodeCatch marking the shown output as an error.
RunCodeCatchMarks(message) ==
    /\ Notify(Toast("An error occurred.", Plain(OrElse(message, "Unable to run code")), "error"))
    /\ isError' = TRUE
    /\ UNCHANGED output

\* The `catch` block.
RunCodeCatch(message) ==
    /\ Notify(Toast("An error occurred.", Plain(OrElse(message, "Unable to run code")), "error"))
    /\ UNCHANGED <<output, isError>>

\* Finally leaving the flag as it is.
FinallyKeeps == isLoading' = isLoading

\* The `finally` block of runCode and of saveCode.
Finally == isLoading' = FALSE

\* runCode() resumes after `await executeCode(...)`.
RunCodeResponse(i, res) ==
    /\ i \in DOMAIN reqs
    /\ reqs[i].kind = "run"
    /\ reqs[i].pc = "fetch"
    /\ result' = <<res>>
    /\ CASE res.ok /\ res.out # <<>> -> RunCodeTry(res)
         [] res.ok /\ res.out = <<>> -> RunCodeCatch(NoOutputError)
         [] OTHER -> RunCodeCatch(res.message)
    /\ Finally
    /\ Return(i)
    /\ UNCHANGED accessVars

----------------------------------------------------------------------------
(* Saving the code: saveCode *)

\* SaveCode clearing the shown output when the save starts.
SaveCodeClears(content) ==
    /\ IF Truthy(content)
       THEN /\ Issued("exec") < MaxExecReqs
            /\ isLoading' = TRUE
            /\ output' = <<>>
            /\ Issue(Req("save", id, emails, ""))
       ELSE UNCHANGED <<isLoading, output, reqs>>
    /\ Fresh
    /\ UNCHANGED <<isError, accessVars>>

\* saveCode() up to `await fetch(...)`.
SaveCode(content) ==
    /\ IF Truthy(content)
       THEN /\ Issued("exec") < MaxExecReqs
            /\ isLoading' = TRUE
            /\ Issue(Req("save", id, emails, ""))
       ELSE UNCHANGED <<isLoading, reqs>>
    /\ Fresh
    /\ UNCHANGED <<output, isError, accessVars>>

\* The `else` branch once response.json() has given errorData.
SaveCodeElse(message) ==
    Notify(Toast("Error", Plain(OrElse(message, "Failed to save content.")), "error"))

\* saveCode() resumes after `await fetch(...)`.
SaveCodeResponse(i, status) ==
    /\ i \in DOMAIN reqs
    /\ reqs[i].kind = "save"
    /\ reqs[i].pc = "fetch"
    /\ CASE status = "ok" ->
                /\ Notify(Toast("Success", Plain("Content saved successfully!"), "success"))
                /\ Finally
                /\ Return(i)
         [] status = "notok" ->
                /\ Suspend(i)
                /\ Quiet
                /\ UNCHANGED isLoading
         [] OTHER ->
                /\ Notify(Unexpected)
                /\ Finally
                /\ Return(i)
    /\ NoRun
    /\ UNCHANGED <<output, isError, accessVars>>

\* saveCode() resumes after `await response.json()`.
SaveCodeJson(i, body) ==
    /\ Parsing(i, "save")
    /\ IF body # Unparsable
       THEN SaveCodeElse(body)
       ELSE Notify(Unexpected)
    /\ Finally
    /\ Return(i)
    /\ NoRun
    /\ UNCHANGED <<output, isError, accessVars>>

----------------------------------------------------------------------------
(* Plain UI handlers *)

\* setIsRemoving(prev => !prev)
ToggleRemoveMode ==
    /\ isRemoving' = ~isRemoving
    /\ Fresh
    /\ UNCHANGED <<execVars, emails, isModalOpen, newEmail, id, reqs, serverAccess>>

\* The "Enter New Email" menu item.
OpenModal ==
    /\ ~isModalOpen
    /\ isModalOpen' = TRUE
    /\ Fresh
    /\ UNCHANGED <<execVars, emails, newEmail, isRemoving, id, reqs, serverAccess>>

\* The modal's onClose and its Close button.
CloseModal ==
    /\ isModalOpen
    /\ isModalOpen' = FALSE
    /\ Fresh
    /\ UNCHANGED <<execVars, emails, newEmail, isRemoving, id, reqs, serverAccess>>

\* The input's onChange: setNewEmail(e.target.value).
SetNewEmail(value) ==
    /\ isModalOpen
    /\ value # newEmail
    /\ newEmail' = value
    /\ Fresh
    /\ UNCHANGED <<execVars, emails, isModalOpen, isRemoving, id, reqs, serverAccess>>

----------------------------------------------------------------------------
(* The component after its first render: the effect has issued the load *)

InitialDoc == "d1"

Init ==
    /\ output = <<>>
    /\ isLoading = FALSE
    /\ isError = FALSE
    /\ emails = <<>>
    /\ isModalOpen = FALSE
    /\ newEmail = ""
    /\ isRemoving = FALSE
    /\ id = InitialDoc
    /\ toasts = <<>>
    /\ result = <<>>
    /\ reqs = <<Req("load", InitialDoc, <<>>, "")>>
    /\ \E list \in ServerLists :
           serverAccess = [doc \in Docs |-> IF doc = InitialDoc THEN list ELSE <<>>]

Remote ==
    \E i \in DOMAIN reqs : ServeLoad(i) \/ ServeGive(i) \/ ServeTake(i)

NextAccess ==
    \/ \E i \in DOMAIN reqs, status \in Statuses : FetchEmailsResponse(i, status)
    \/ \E i \in DOMAIN reqs : FetchEmailsJson(i)
    \/ HandleEmailSubmit
    \/ \E i \in DOMAIN reqs, status \in Statuses : HandleEmailSubmitResponse(i, status)
    \/ \E i \in DOMAIN reqs, body \in Messages \cup {Unparsable} : HandleEmailSubmitJson(i, body)
    \/ \E e \in Emails \cup Typed : RemoveEmail(e)
    \/ \E i \in DOMAIN reqs, status \in Statuses : RemoveEmailResponse(i, status)
    \/ \E i \in DOMAIN reqs, body \in Messages \cup {Unparsable} : RemoveEmailJson(i, body)
    \/ ToggleRemoveMode
    \/ OpenModal
    \/ CloseModal
    \/ \E value \in Typed : SetNewEmail(value)
    \/ Remote

SpecAccess == Init /\ [][NextAccess]_vars

NextExec ==
    \/ \E sourceCode \in Sources : RunCode(sourceCode)
    \/ \E i \in DOMAIN reqs, res \in RunResults : RunCodeResponse(i, res)
    \/ \E content \in Sources : SaveCode(content)
    \/ \E i \in DOMAIN reqs, status \in Statuses : SaveCodeResponse(i, status)
    \/ \E i \in DOMAIN reqs, body \in Messages \cup {Unparsable} : SaveCodeJson(i, body)

SpecExec == Init /\ [][NextExec]_vars

----------------------------------------------------------------------------
(* Vocabulary of the properties *)

AccessRequests == {i \in DOMAIN reqs : reqs[i].kind \in {"load", "grant", "revoke"}}

Elems(list) == {list[k] : k \in 1..Len(list)}

\* `list` without the entries equal to e, the others in their order.
RECURSIVE Without(_, _)
Without(list, e) ==
    IF list = <<>> THEN <<>>
    ELSE IF Head(list) = e THEN Without(Tail(list), e)
         ELSE <<Head(list)>> \o Without(Tail(list), e)

\* The lines joined by newlines.
RECURSIVE Join(_)
Join(lines) ==
    IF Len(lines) = 1 THEN lines[1]
    ELSE lines[1] \o <<NL>> \o Join(Tail(lines))

\* This step resumes the handler of request i (it suspends again or returns).
Resumes(i) == reqs[i].pc # "done" /\ reqs'[i].pc # reqs[i].pc

\* This step resumes the handler of request i, which returns.
Returns(i) == reqs[i].pc # "done" /\ reqs'[i].pc = "done"

\* This step handles the success response of request i.
LoadSucceeds(i) ==
    reqs[i].kind = "load" /\ reqs[i].pc = "json" /\ reqs[i].resp.parse /\ Returns(i)
GrantSucceeds(i) ==
    reqs[i].kind = "grant" /\ reqs[i].pc = "fetch" /\ reqs[i].resp.served /\ Returns(i)
RevokeSucceeds(i) ==
    reqs[i].kind = "revoke" /\ reqs[i].pc = "fetch" /\ reqs[i].resp.served /\ Returns(i)

\* This step handles the failure of request i: the call was rejected, came
\* back without response.ok, or its body could not be read.
AccessFails(i) ==
    /\ Resumes(i)
    /\ \/ reqs[i].pc = "fetch" /\ ~reqs[i].resp.served
       \/ reqs[i].pc = "json" /\ reqs[i].kind \in {"grant", "revoke"}
       \/ reqs[i].pc = "json" /\ reqs[i].kind = "load" /\ ~reqs[i].resp.parse

OneError(ts) == Len(ts) = 1 /\ ts[1].status = "error"

----------------------------------------------------------------------------
(* Properties of the access list *)

\* C1: when a load, a grant or a revoke fails, the step that handles the
\* failure leaves emails, newEmail and isModalOpen as they were, and the
\* handler emits one error notification when it returns; emails changes only
\* in a step that handles a success response.
C1_FailureLeavesState ==
    [][/\ \A i \in AccessRequests :
             AccessFails(i) =>
                /\ emails' = emails
                /\ newEmail' = newEmail
                /\ isModalOpen' = isModalOpen
                /\ IF Returns(i) THEN OneError(toasts') ELSE toasts' = <<>>
       /\ emails' # emails =>
             \E i \in AccessRequests :
                 LoadSucceeds(i) \/ GrantSucceeds(i) \/ RevokeSucceeds(i)]_vars

\* A grant refused by the server with a message has just been handled: the
\* list, the typed email and the open modal are still there.
C1_Witness ==
    /\ toasts = <<[title |-> "Error", description |-> <<"denied">>, status |-> "error"]>>
    /\ emails # <<>>
    /\ newEmail = "a"
    /\ isModalOpen

\* C2: once the initial load has succeeded and no access request is in
\* flight, emails holds exactly the addresses the server holds for the document.
C2_ListReflectsServer ==
    (/\ reqs[1].pc = "done"
     /\ reqs[1].resp.served
     /\ InFlight("access") = {})
        => Elems(emails) = Elems(serverAccess[id])

\* C3: when a load resolves successfully, emails becomes exactly the list
\* the server returned (same entries, same order, duplicates kept), and the
\* empty list when the body has no Access field.
C3_LoadReplacesList ==
    [][\A i \in AccessRequests :
          LoadSucceeds(i) =>
             emails' = IF reqs[i].resp.access = <<>>
                       THEN <<>>
                       ELSE reqs[i].resp.access[1]]_vars

\* The only request ever issued is the load, it has succeeded, and the list
\* is the server's list with its duplicate.
C3_Witness ==
    /\ Issued("access") = 1
    /\ reqs[1].pc = "done"
    /\ reqs[1].resp.served
    /\ emails = <<"a", "a">>
    /\ serverAccess[id] = <<"a", "a">>

\* C4: while the pending email is empty or blank (white space only), no
\* grant request is issued.
C4_BlankEmailIsNoOp ==
    [][(newEmail = "" \/ newEmail = " ") =>
          (Len(reqs') > Len(reqs) => reqs'[Len(reqs')].kind # "grant")]_vars

\* C5: in the state produced by handling a successful grant, the last entry
\* of emails is the email of the request, newEmail is '', the modal is
\* closed and one success notification naming the email has been emitted.
C5_GrantSuccess ==
    [][\A i \in AccessRequests :
          GrantSucceeds(i) =>
             /\ emails' # <<>>
             /\ emails'[Len(emails')] = reqs[i].email
             /\ newEmail' = ""
             /\ ~isModalOpen'
             /\ toasts' = <<[title |-> "Access Granted",
                             description |-> <<"Access granted to ", reqs[i].email>>,
                             status |-> "success"]>>]_vars

\* A grant of "a" has just succeeded while another access request is in
\* flight, and "a" closes the list the load gave.
C5_Witness ==
    /\ toasts = <<[title |-> "Access Granted",
                   description |-> <<"Access granted to ", "a">>,
                   status |-> "success"]>>
    /\ emails = <<"a", "b", "a">>
    /\ newEmail = ""
    /\ ~isModalOpen
    /\ InFlight("access") # {}

\* C6: handling a successful grant appends the email to the list as it is
\* just before that step.
C6_GrantAppendsToCurrent ==
    [][\A i \in AccessRequests :
          GrantSucceeds(i) => emails' = Append(emails, reqs[i].email)]_vars

\* C7: after a successful revoke no entry of emails equals the email; when no
\* other access request was handled while the revoke was in flight, emails
\* is the list as it was with every entry equal to the email removed and the
\* others in their order.
C7_RevokeRemoves ==
    [][\A i \in AccessRequests :
          RevokeSucceeds(i) =>
             /\ \A k \in 1..Len(emails') : emails'[k] # reqs[i].email
             /\ reqs[i].clean => emails' = Without(emails, reqs[i].email)]_vars

\* The load gave ["a", "b"], then "a" was revoked: the list is ["b"].
C7_Witness ==
    /\ toasts = <<[title |-> "Access Revoked",
                   description |-> <<"Access revoked for ", "a">>,
                   status |-> "success"]>>
    /\ Issued("access") = 2
    /\ emails = <<"b">>
    /\ serverAccess[id] = <<"b">>

\* C8: no address occurs twice in emails (the server's lists being free of
\* duplicates, SpecUnique).
C8_ListUnique ==
    \A j, k \in 1..Len(emails) : emails[j] = emails[k] => j = k

InitUnique ==
    /\ Init
    /\ \A doc \in Docs :
          \A j, k \in 1..Len(serverAccess[doc]) :
              serverAccess[doc][j] = serverAccess[doc][k] => j = k

SpecUnique == InitUnique /\ [][NextAccess]_vars

----------------------------------------------------------------------------
(* Properties of running the code *)

\* The step has resumed a run with a result that carries an output string.
RunSucceeded == result # <<>> /\ result[1].ok /\ result[1].out # <<>>

\* This step resumes the run of request i with a thrown error, or with a
\* result the `try` block throws on.
RunFails(i) ==
    /\ reqs[i].kind = "run"
    /\ Returns(i)
    /\ result' # <<>>
    /\ ~(result'[1].ok /\ result'[1].out # <<>>)

\* C9: when a run resolves with {output, stderr}, the lines of `output` in
\* the resulting state are the segments of the output string between its
\* newlines (joined by newlines they give the string back, and none holds a
\* newline), and isError holds exactly when stderr is not empty.
C9_RunResult ==
    RunSucceeded =>
        /\ output # <<>>
        /\ output[1] # <<>>
        /\ Join(output[1]) = result[1].out[1]
        /\ \A n \in 1..Len(output[1]) :
              \A k \in 1..Len(output[1][n]) : output[1][n][k] # NL
        /\ isError = (result[1].stderr # "")

\* The run has resolved with "1\n\n" and an error stream: three lines, two
\* of them empty, shown as an error.
C9_Witness ==
    /\ RunSucceeded
    /\ result[1].out[1] = <<"1", NL, NL>>
    /\ result[1].stderr = "TypeError"
    /\ output = << << <<"1">>, <<>>, <<>> >> >>
    /\ isError

\* C10 as claimed: after a failed run is handled, loading is false, one
\* error notification is emitted and output and isError are what they were
\* when the run was started.
C10_FailedRunRestoresStart ==
    [][\A i \in DOMAIN reqs :
          RunFails(i) =>
             /\ ~isLoading'
             /\ OneError(toasts')
             /\ output' = reqs[i].output0
             /\ isError' = reqs[i].isError0]_vars

\* C10 as amended: after a failed run is handled, loading is false, one
\* error notification is emitted and output and isError are what they were
\* just before the failure was handled; they are what they were when the run
\* was started if no other run was handled while it was in flight.
C10_FailedRunKeepsResult ==
    [][\A i \in DOMAIN reqs :
          RunFails(i) =>
             /\ ~isLoading'
             /\ OneError(toasts')
             /\ output' = output
             /\ isError' = isError
             /\ reqs[i].clean =>
                   output' = reqs[i].output0 /\ isError' = reqs[i].isError0]_vars

\* A run has just been rejected and the output of an earlier run is still shown.
C10_Witness ==
    /\ result # <<>>
    /\ ~result[1].ok
    /\ output = << << <<"o", "o", "p", "s">> >> >>
    /\ isError
    /\ ~isLoading
    /\ OneError(toasts)

----------------------------------------------------------------------------
(* Properties of the loading flag *)

\* C11: isLoading holds in every state in which a run or a save is in flight.
C11_LoadingWhileInFlight == InFlight("exec") # {} => isLoading

\* C16: isLoading is false in every state in which no run and no save is in
\* flight, whatever paths the runs and saves so far have taken.
C16_LoadingCleared == InFlight("exec") = {} => ~isLoading

\* Every run and save the bound allows has been issued and has returned, the
\* last one through an error notification, and a run among them has set the output.
C16_Witness ==
    /\ Issued("exec") = MaxExecReqs
    /\ InFlight("exec") = {}
    /\ OneError(toasts)
    /\ output # <<>>
    /\ ~isLoading

----------------------------------------------------------------------------
(* Running and saving beside the access list: the list is loaded and the   *)
(* dialog is used while runs and saves are issued and resolve.             *)

NextPage ==
    \/ \E i \in DOMAIN reqs : ServeLoad(i)
    \/ \E i \in DOMAIN reqs, status \in Statuses : FetchEmailsResponse(i, status)
    \/ \E i \in DOMAIN reqs : FetchEmailsJson(i)
    \/ ToggleRemoveMode
    \/ OpenModal
    \/ CloseModal
    \/ \E value \in Typed : SetNewEmail(value)
    \/ \E sourceCode \in Sources :
           (Truthy(sourceCode) => Issued("exec") < MaxPageReqs) /\ RunCode(sourceCode)
    \/ \E i \in DOMAIN reqs, res \in RunResults : RunCodeResponse(i, res)
    \/ \E content \in Sources :
           (Truthy(content) => Issued("exec") < MaxPageReqs) /\ SaveCode(content)
    \/ \E i \in DOMAIN reqs, status \in Statuses : SaveCodeResponse(i, status)
    \/ \E i \in DOMAIN reqs, body \in Messages \cup {Unparsable} : SaveCodeJson(i, body)

SpecPage == Init /\ [][NextPage]_vars

----------------------------------------------------------------------------
(* Properties of runs and saves as steps *)

\* This step starts a handler that issues a `kind` request.
Starts(kind) == Len(reqs') = Len(reqs) + 1 /\ reqs'[Len(reqs')].kind = kind

\* C12: runCode() and saveCode() on an empty (or absent) editor text issue
\* no request, leave isLoading, output, isError and emails as they are and
\* emit no notification.
C12_EmptyTextIsNoOp ==
    [][(RunCode("") \/ SaveCode("")) =>
          /\ reqs' = reqs
          /\ isLoading' = isLoading
          /\ toasts' = <<>>
          /\ output' = output
          /\ isError' = isError
          /\ emails' = emails]_vars

\* One run has been issued and has set the output, and the step after it
\* resumed no handler and issued nothing: a run or a save on the empty text.
C12_Witness ==
    /\ Issued("exec") = 1
    /\ InFlight("exec") = {}
    /\ toasts = <<>>
    /\ result = <<>>
    /\ output # <<>>
    /\ ~isLoading

\* C13: every step of a save (its start, the response, the error body)
\* leaves emails, output, isError, newEmail, isModalOpen and isRemoving as
\* they are; the start sets isLoading, and the step in which the handler
\* returns clears it and emits the one notification of the save.
C13_SaveFrame ==
    [][/\ Starts("save") =>
             /\ UNCHANGED <<emails, output, isError, newEmail, isModalOpen, isRemoving>>
             /\ isLoading'
             /\ toasts' = <<>>
       /\ \A i \in DOMAIN reqs :
             (reqs[i].kind = "save" /\ Resumes(i)) =>
                /\ UNCHANGED <<emails, output, isError, newEmail, isModalOpen, isRemoving>>
                /\ IF Returns(i)
                   THEN Len(toasts') = 1 /\ ~isLoading'
                   ELSE toasts' = <<>> /\ isLoading' = isLoading]_vars

\* A save has just been refused by the server while the list is loaded, an
\* output is shown, an address is typed in the open dialog and removal mode is on.
C13_Witness ==
    /\ toasts = <<[title |-> "Error", description |-> <<"denied">>, status |-> "error"]>>
    /\ Issued("exec") = 2
    /\ InFlight("exec") = {}
    /\ emails = <<"a", "b">>
    /\ output # <<>>
    /\ isError
    /\ newEmail = "a"
    /\ isModalOpen
    /\ isRemoving

----------------------------------------------------------------------------
(* The access list while the component is given other documents *)

NextDocs ==
    \/ NextAccess
    \/ \E doc \in Docs : ChangeId(doc)

SpecDocs == Init /\ [][NextDocs]_vars

\* The request this step has issued.
Latest == reqs'[Len(reqs')]

\* C14: a step issues at most one request, and none when it handles a
\* response or a failure or when the remote side serves a call; a load is
\* issued exactly when the component gets another id, and for that id; a
\* grant exactly when handleEmailSubmit runs on a non-empty newEmail, for that
\* email; a revoke exactly when removeEmail runs, for its argument.
C14_OneRequestPerInvocation ==
    [][/\ Len(reqs') \in {Len(reqs), Len(reqs) + 1}
       /\ \A i \in DOMAIN reqs :
             (Resumes(i) \/ reqs'[i].resp # reqs[i].resp) => Len(reqs') = Len(reqs)
       /\ id' # id <=> Starts("load")
       /\ Starts("load") => Latest.doc = id'
       /\ (newEmail # "" /\ HandleEmailSubmit) =>
             Starts("grant") /\ Latest.email = newEmail /\ Latest.doc = id
       /\ Starts("grant") => isModalOpen /\ newEmail # ""
       /\ \A e \in Emails \cup Typed :
             RemoveEmail(e) =>
                Starts("revoke") /\ Latest.email = e /\ Latest.doc = id
       /\ Starts("revoke") => isRemoving /\ Latest.email \in Shown]_vars

\* Two loads (the second for another document) and a grant have been issued
\* and every one of them has failed: there are three requests and no more.
C14_Witness ==
    /\ id = "d2"
    /\ Len(reqs) = 3
    /\ \A i \in DOMAIN reqs : reqs[i].pc = "done" /\ ~reqs[i].resp.served
    /\ emails = <<>>
    /\ isModalOpen
    /\ newEmail = "a"
    /\ OneError(toasts)


\* C19: when every request issued so far is a load that has resolved
\* successfully (so the load for the current id has, and no grant or revoke
\* has been applied), emails is the list the server holds, and returned, for
\* the current id, whatever the order in which the loads resolved.
C19_LateLoadIgnored ==
    (\A k \in DOMAIN reqs : reqs[k].pc = "done" /\ reqs[k].resp.served)
        => emails = serverAccess[id]

----------------------------------------------------------------------------
(* Properties of overlapping grants and revokes *)

\* C15: a grant or revoke carries the list as it is when it is issued, and
\* handling its success sets emails to that list with its own change applied
\* (the email appended, or every entry equal to it removed), whatever has
\* been handled in between: of two requests in flight together, the one
\* handled last decides the list and the effect of the other is gone.
C15_LastHandledWins ==
    [][/\ (Starts("grant") \/ Starts("revoke")) => Latest.emails = emails
       /\ \A i \in AccessRequests :
             /\ reqs'[i].pc # "done" => reqs'[i].emails = reqs[i].emails
             /\ GrantSucceeds(i) => emails' = Append(reqs[i].emails, reqs[i].email)
             /\ RevokeSucceeds(i) => emails' = Without(reqs[i].emails, reqs[i].email)]_vars

\* The load gave ["a", "b"]; the revokes of "a" and of "b" were in flight
\* together and both succeeded, that of "b" handled last: the server holds
\* nobody and the list shows "a" again.
C15_Witness ==
    /\ toasts = <<[title |-> "Access Revoked",
                   description |-> <<"Access revoked for ", "b">>,
                   status |-> "success"]>>
    /\ Issued("access") = 3
    /\ InFlight("access") = {}
    /\ emails = <<"a">>
    /\ serverAccess[id] = <<>>

----------------------------------------------------------------------------
(* The life of a run *)

\* The execution service answers, or fails, every run it is sent:
\* `await executeCode(...)` of each call eventually settles.
RunsSettle ==
    \A i \in 1..(MaxExecReqs + 1) :
        WF_vars(\E res \in RunResults : RunCodeResponse(i, res))

SpecRuns == SpecExec /\ RunsSettle

\* Request i is a run suspended at `await executeCode(...)`.
Running(i) == i \in DOMAIN reqs /\ reqs[i].kind = "run" /\ reqs[i].pc = "fetch"

\* C17: a run starts with isLoading set (Running); every run that is Running
\* eventually returns, and the step in which it returns (Succeeded or Failed)
\* clears isLoading; output and isError change only in the step that handles
\* a result carrying an output string (Succeeded).
C17_RunLifeCycle ==
    /\ \A i \in 1..(MaxExecReqs + 1) :
          Running(i) ~> (i \in DOMAIN reqs /\ reqs[i].pc = "done")
    /\ [][/\ Starts("run") => isLoading'
          /\ \A i \in DOMAIN reqs :
                (reqs[i].kind = "run" /\ Resumes(i)) => Returns(i) /\ ~isLoading'
          /\ (output' # output \/ isError' # isError) =>
                /\ \E i \in DOMAIN reqs : reqs[i].kind = "run" /\ Returns(i)
                /\ result' # <<>>
                /\ result'[1].ok
                /\ result'[1].out # <<>>]_vars

\* Every run the bound allows has been issued and has returned, the last one
\* failed, and the output of one that succeeded is shown.
C17_Witness ==
    /\ \A i \in 2..(MaxExecReqs + 1) : i \in DOMAIN reqs /\ reqs[i].pc = "done"
    /\ result # <<>>
    /\ ~result[1].ok
    /\ result[1].message = "denied"
    /\ output = << << <<"1">>, <<>>, <<>> >> >>
    /\ ~isLoading


\* C18: runCode() on a non-empty text starts a request whatever is in flight
\* (up to the bound of the model), and the step that handles a result
\* carrying an output string sets output and isError from that result alone,
\* whichever run it belongs to: of two runs that succeed, the one handled
\* last is the one shown.
C18_OverlappingRuns ==
    /\ [](Issued("exec") < MaxExecReqs => ENABLED RunCode("print(1)"))
    /\ [][/\ (RunCode("print(1)")) => Starts("run")
          /\ \A i \in DOMAIN reqs :
                (/\ reqs[i].kind = "run"
                 /\ Returns(i)
                 /\ result'[1].ok
                 /\ result'[1].out # <<>>) =>
                     /\ output' = <<Split(result'[1].out[1])>>
                     /\ isError' = (result'[1].stderr # "")]_vars

\* Two runs were in flight together; the one issued second has been handled
\* first, with success, and its result is shown while the first is still
\* in flight.
C18_Witness ==
    /\ Len(reqs) = 3
    /\ Running(2)
    /\ ~reqs[2].clean
    /\ reqs[3].pc = "done"
    /\ RunSucceeded
    /\ output = <<Split(result[1].out[1])>>
    /\ output # reqs[2].output0
    /\ ~isLoading

----------------------------------------------------------------------------
(* The email of a grant *)

\* C20: a grant carries the value of newEmail of the moment it is issued and
\* keeps it while in flight; handling its success adds one entry, that
\* email, at the end of the list, names that email in the notification and
\* sets newEmail to '', whatever newEmail has become in the meantime.
C20_GrantUsesSentEmail ==
    [][/\ Starts("grant") => Latest.email = newEmail
       /\ \A i \in AccessRequests :
             /\ reqs'[i].pc # "done" => reqs'[i].email = reqs[i].email
             /\ GrantSucceeds(i) =>
                   /\ Len(emails') = Len(reqs[i].emails) + 1
                   /\ emails'[Len(emails')] = reqs[i].email
                   /\ toasts'[1].description = <<"Access granted to ", reqs[i].email>>
                   /\ newEmail' = ""]_vars

\* The grant of "a" has just succeeded; while it was in flight the input was
\* changed to " " and submitted again (the third request), and it is "a" that
\* was added and named, and the input is empty.
C20_Witness ==
    /\ Len(reqs) = 3
    /\ reqs[2].pc = "done"
    /\ reqs[3].kind = "grant"
    /\ reqs[3].email = " "
    /\ toasts = <<[title |-> "Access Granted",
                   description |-> <<"Access granted to ", "a">>,
                   status |-> "success"]>>
    /\ emails # <<>>
    /\ emails[Len(emails)] = "a"
    /\ newEmail = ""

=============================================================================
